---- MODULE Spec2Model ----
(***************************************************************************)
(* rmp3: frame navigation and response translation over an MPEG audio      *)
(* byte buffer (src/src/lib.rs).                                           *)
(*                                                                         *)
(* Bytes are abstracted: 0 is a byte that starts no frame (garbage), and   *)
(* h in 1..MaxFrame is a sync byte that starts a frame of h bytes in all.  *)
(* The codec engine (minimp3, reached through ffi::mp3dec_decode_frame) is *)
(* not part of lib.rs; it is modelled from the engine contract of the      *)
(* specification: a reference engine for the stream navigator, and every   *)
(* response the trust boundary allows for the primitive Decoder.           *)
(***************************************************************************)
EXTENDS Integers, Sequences, FiniteSets

\* ---------------------------------------------------------------- bounds
MaxLen == 3
MaxFrame == 2
MaxSeekOver == 1
MaxEngineSamples == 2
MaxInputLen == 3

\* ------------------------------------------------------------- constants
\* c_int::max_value()
C_INT_MAX == 2147483647

\* MAX_SAMPLES_PER_FRAME, the capacity of DecoderBuf: 1152 samples for each of 2 channels
MAX_SAMPLES_PER_FRAME == 2304

\* The modulus of `as usize` arithmetic. It is 2^64 in a 64-bit build; 2^30 stands
\* for it here, the largest power of two whose double the checker's integers hold.
USIZE_MODULUS == 1073741824

VARIABLES
    \* DecoderStream fields
    decoder,          \* engine context: the header byte of the last frame found, 0 after a reset
    decoder_buf,      \* number of leading PCM slots that hold a written value
    frame_recv,       \* the frame info the engine wrote last
    peek_cache_len,   \* Option<usize>: <<>> is None, <<n>> is Some(n)
    source,           \* start of the remaining view, as an offset into source_copy
    source_copy,      \* the whole input buffer
    \* what the caller observed
    last_op, last_arg, last_res,
    prev,             \* the navigator as it was before the last call
    frames,           \* frames returned by an unbroken run of next() since new()
    only_next,        \* no call other than next() was made since new()
    err_at,           \* <<p>>: InsufficientData was returned at p and no set_position since
    run,              \* the calls since new() or the last set_position: where they started,
                      \* how many returned Ok, and whether all were next() or skip()
    \* primitive Decoder over an arbitrary conforming engine
    d_op, d_len, d_samples, d_recv, d_res

vars == <<decoder, decoder_buf, frame_recv, peek_cache_len, source, source_copy,
          last_op, last_arg, last_res, prev, frames, only_next, err_at, run,
          d_op, d_len, d_samples, d_recv, d_res>>

streamVars == <<decoder, decoder_buf, frame_recv, peek_cache_len, source, source_copy,
                last_op, last_arg, last_res, prev, frames, only_next, err_at, run>>

decoderVars == <<d_op, d_len, d_samples, d_recv, d_res>>

\* ------------------------------------------------------------ data model
None == <<>>

Some(n) == <<n>>

Min(a, b) == IF a <= b THEN a ELSE b

Max(a, b) == IF a >= b THEN a ELSE b

Byte == 0..MaxFrame

Buffers == UNION {[1..n -> Byte] : n \in 0..MaxLen}

\* MaybeUninit::<mp3dec_frame_info_t>::uninit()
uninit_frame_info ==
    [frame_bytes |-> 0 - 1, frame_offset |-> 0 - 1, channels |-> 0 - 1,
     hz |-> 0 - 1, layer |-> 0 - 1, bitrate_kbps |-> 0 - 1]

\* Err(InsufficientData)
InsufficientData ==
    [kind |-> "Err", bitrate |-> 0, channels |-> 0, mpeg_layer |-> 0, sample_rate |-> 0,
     bytes_consumed |-> 0, src_lo |-> 0, src_hi |-> 0, samples_len |-> 0, sample_count |-> 0]

\* Ok(()) of skip
OkUnit == [InsufficientData EXCEPT !.kind = "Unit"]

\* no result: new() and set_position() return nothing
NoResult == [InsufficientData EXCEPT !.kind = "None"]

IsOk(r) == r.kind \in {"Audio", "Unknown", "Unit"}

\* ------------------------------------------------------- codec engine
hdr_channels(h) == IF h % 2 = 1 THEN 1 ELSE 2

hdr_frame_samples(h) == h

hdr_sample_rate_hz(h) == IF h % 2 = 1 THEN 44100 ELSE 48000

hdr_bitrate_kbps(h) == 64 * h

\* offset of the first sync byte of mp3, Len(mp3) when it holds none
mp3d_find_frame(mp3) ==
    LET S == {i \in 1..Len(mp3) : mp3[i] # 0}
    IN  IF S = {} THEN Len(mp3)
        ELSE (CHOOSE i \in S : \A j \in S : i <= j) - 1

\* One decode attempt at the start of mp3. pcm is "null" (parse only) or "buf".
\* The result holds the returned sample count, the frame info written, the
\* engine context afterwards and the number of PCM slots written.
mp3dec_decode_frame(dec, mp3, pcm) ==
    LET i == mp3d_find_frame(mp3)
        h == IF i < Len(mp3) THEN mp3[i + 1] ELSE 0
        found == h # 0 /\ i + h <= Len(mp3)
    IN  IF found
        THEN [samples |-> hdr_frame_samples(h),
              info |-> [frame_bytes |-> i + h, frame_offset |-> i,
                        channels |-> hdr_channels(h), hz |-> hdr_sample_rate_hz(h),
                        layer |-> 3, bitrate_kbps |-> hdr_bitrate_kbps(h)],
              dec |-> h,
              written |-> IF pcm = "buf" THEN hdr_frame_samples(h) * hdr_channels(h) ELSE 0]
        ELSE [samples |-> 0,
              info |-> [frame_bytes |-> i, frame_offset |-> 0, channels |-> 0,
                        hz |-> 0, layer |-> 0, bitrate_kbps |-> 0],
              dec |-> 0,
              written |-> 0]

\* Sample counts an engine can return as a C int: none, small ones, the most
\* a frame holds for one channel, and a negative one.
EngineSamples ==
    {0 - 1} \cup (0..MaxEngineSamples) \cup {MAX_SAMPLES_PER_FRAME \div 2}

\* Every response of an engine that keeps the trust boundary on an input of
\* len bytes: frame_bytes and frame_offset each within 0..len.
EngineResponses(len) ==
    [samples : EngineSamples,
     info : [frame_bytes : 0..len, frame_offset : 0..len, channels : 1..2,
             hz : {44100}, layer : {3}, bitrate_kbps : {128}]]

\* ------------------------------------------------------ pure functions
\* x as usize
as_usize(x) == x % USIZE_MODULUS

\* a * b in usize arithmetic, wrapping as a release build does
usize_mul(a, b) == (a * b) % USIZE_MODULUS

data_len_safe(len) == Min(len, C_INT_MAX)

\* frame_bytes taken for a length counted from frame_offset
source_slice_relative(frame_recv_) ==
    [lo |-> frame_recv_.frame_offset,
     hi |-> frame_recv_.frame_offset + frame_recv_.frame_bytes]

\* data.get_unchecked(frame_offset..frame_bytes): the range asked for, unchecked
source_slice(frame_recv_) ==
    [lo |-> frame_recv_.frame_offset, hi |-> frame_recv_.frame_bytes]

\* the slice length counted in bytes of 16-bit samples, not in samples
pcm_view_bytes(pcm_f, points) == IF pcm_f = "slice" THEN 2 * points ELSE 0

\* a samples view of `points` values whatever the accessor, a peeking one included
pcm_view_always(pcm_f, points) == points

\* the samples view pcm_f gives for `points` interleaved values:
\* "slice" borrows ..points of the PCM buffer, "empty" is &[]
pcm_view(pcm_f, points) == IF pcm_f = "slice" THEN points ELSE 0

\* Audio or else Unknown: the frame_bytes != 0 test of the second branch is left out
translate_response_two_way(frame_recv_, samples, pcm_f) ==
    IF samples # 0
    THEN [kind |-> "Audio",
          bitrate |-> frame_recv_.bitrate_kbps,
          channels |-> frame_recv_.channels,
          mpeg_layer |-> frame_recv_.layer,
          sample_rate |-> frame_recv_.hz,
          bytes_consumed |-> frame_recv_.frame_bytes,
          src_lo |-> source_slice(frame_recv_).lo,
          src_hi |-> source_slice(frame_recv_).hi,
          samples_len |-> pcm_view(pcm_f, usize_mul(as_usize(samples),
                                                    as_usize(frame_recv_.channels))),
          sample_count |-> as_usize(samples)]
    ELSE [InsufficientData EXCEPT
              !.kind = "Unknown",
              !.bytes_consumed = frame_recv_.frame_bytes,
              !.src_lo = source_slice(frame_recv_).lo,
              !.src_hi = source_slice(frame_recv_).hi]

\* frame_bytes tested first: no bytes consumed is InsufficientData whatever the
\* sample count
translate_response_bytes_first(frame_recv_, samples, pcm_f) ==
    IF frame_recv_.frame_bytes = 0
    THEN InsufficientData
    ELSE translate_response_two_way(frame_recv_, samples, pcm_f)

translate_response(frame_recv_, samples, pcm_f) ==
    IF samples # 0
    THEN [kind |-> "Audio",
          bitrate |-> frame_recv_.bitrate_kbps,
          channels |-> frame_recv_.channels,
          mpeg_layer |-> frame_recv_.layer,
          sample_rate |-> frame_recv_.hz,
          bytes_consumed |-> frame_recv_.frame_bytes,
          src_lo |-> source_slice(frame_recv_).lo,
          src_hi |-> source_slice(frame_recv_).hi,
          samples_len |-> pcm_view(pcm_f, usize_mul(as_usize(samples),
                                                    as_usize(frame_recv_.channels))),
          sample_count |-> as_usize(samples)]
    ELSE IF frame_recv_.frame_bytes # 0
    THEN [InsufficientData EXCEPT
              !.kind = "Unknown",
              !.bytes_consumed = frame_recv_.frame_bytes,
              !.src_lo = source_slice(frame_recv_).lo,
              !.src_hi = source_slice(frame_recv_).hi]
    ELSE InsufficientData

\* ------------------------------------------------------ DecoderStream
\* self.source as bytes: the suffix of source_copy from offset src
remaining(src) == SubSeq(source_copy, src + 1, Len(source_copy))

\* position(): source.as_ptr() - source_copy.as_ptr()
position == source

\* The cursor is inside the buffer, so self.source is a defined slice.
\* offset_trusted slices unchecked: once it has put the start past the end of
\* source_copy, the view's length and the bytes the engine would read are
\* undefined, and only set_position, which reads source_copy alone, is modelled
\* from such a state.
InBounds == source <= Len(source_copy)

\* DecoderStream::dec with the view starting at src: one engine call on
\* data_len_safe(len) bytes of it
dec_at(src, pcm_out) ==
    LET data == remaining(src)
        data_len == data_len_safe(Len(data))
    IN  mp3dec_decode_frame(decoder, SubSeq(data, 1, data_len), pcm_out)

\* a parse-only call that is handed one byte less than the view holds
dec_short(pcm_out) ==
    IF pcm_out = "null"
    THEN LET data == remaining(source)
             data_len == data_len_safe(Len(data))
         IN  mp3dec_decode_frame(decoder, SubSeq(data, 1, data_len - 1), pcm_out)
    ELSE dec_at(source, pcm_out)

\* DecoderStream::dec on self.source
dec(pcm_out) == dec_at(source, pcm_out)

\* the offset applied to the whole buffer, source_copy, not to the remaining view
offset_trusted_from_start(src, offset) == offset

\* self.source.get_unchecked(offset..): the new start of the view
offset_trusted(src, offset) == src + offset

\* next() advances by frame_bytes less the lead-in, the length of the source slice
next_source_short(response, frame_recv_) ==
    IF IsOk(response)
    THEN offset_trusted(source, frame_recv_.frame_bytes - frame_recv_.frame_offset)
    ELSE source

\* next() steps over one byte when the engine found nothing
next_source_resync(response, frame_recv_) ==
    IF IsOk(response)
    THEN offset_trusted(source, frame_recv_.frame_bytes)
    ELSE offset_trusted(source, Min(1, Len(remaining(source))))

\* the view after next(): advanced by frame_bytes only when the response is Ok
next_source(response, frame_recv_) ==
    IF IsOk(response)
    THEN offset_trusted(source, frame_recv_.frame_bytes)
    ELSE source

\* the cache holds where the frame starts, frame_offset, not the bytes consumed
peek_cache_frame_offset(response) ==
    IF IsOk(response) THEN Some(response.src_lo) ELSE None

\* the cache peek() leaves: Some(bytes_consumed) of an Ok frame, None on Err
peek_cache(response) ==
    IF IsOk(response) THEN Some(response.bytes_consumed) ELSE None

\* set_position without the min
clamp_position_unclamped(n) == n

\* source_copy.len().min(position)
clamp_position(n) == Min(Len(source_copy), n)

\* the run after one more next() or skip() that returned res
run_after(res) ==
    IF run.pure /\ IsOk(res) THEN [run EXCEPT !.oks = run.oks + 1] ELSE run

\* a run that holds a call other than next() and skip() is not counted
NoRun == [start |-> 0, oks |-> 0, pure |-> FALSE]

Snapshot ==
    [source |-> source, peek_cache_len |-> peek_cache_len, last_op |-> last_op,
     last_arg |-> last_arg, last_res |-> last_res, err_at |-> err_at]

Init ==
    /\ source_copy \in Buffers
    /\ source = 0
    /\ peek_cache_len = None
    /\ decoder = 0
    /\ decoder_buf = 0
    /\ frame_recv = uninit_frame_info
    /\ last_op = "new"
    /\ last_arg = 0
    /\ last_res = NoResult
    /\ prev = [source |-> 0, peek_cache_len |-> None, last_op |-> "new",
               last_arg |-> 0, last_res |-> NoResult, err_at |-> None]
    /\ frames = <<>>
    /\ only_next = TRUE
    /\ err_at = None
    /\ run = [start |-> 0, oks |-> 0, pure |-> TRUE]
    /\ d_op = "new"
    /\ d_len = 0
    /\ d_samples = 0
    /\ d_recv = uninit_frame_info
    /\ d_res = NoResult

DecoderStream_next ==
    /\ InBounds
    /\ LET r == dec("buf")
           response == translate_response(r.info, r.samples, "slice")
       IN  /\ peek_cache_len' = None
           /\ decoder' = r.dec
           /\ decoder_buf' = Max(decoder_buf, r.written)
           /\ frame_recv' = r.info
           /\ source' = next_source(response, r.info)
           /\ last_res' = response
           /\ frames' = IF only_next /\ IsOk(response)
                        THEN Append(frames, [start |-> source,
                                             bytes_consumed |-> response.bytes_consumed,
                                             lo |-> source + response.src_lo,
                                             hi |-> source + response.src_hi])
                        ELSE frames
           /\ err_at' = IF IsOk(response) THEN err_at ELSE Some(source)
    /\ run' = run_after(last_res')
    /\ last_op' = "next"
    /\ last_arg' = 0
    /\ prev' = Snapshot
    /\ UNCHANGED <<source_copy, only_next>>
    /\ UNCHANGED decoderVars

\* a peek() that moves the view past the frame it reports, as next() does
DecoderStream_peek_advancing ==
    /\ InBounds
    /\ LET r == dec("null")
           response == translate_response(r.info, r.samples, "empty")
       IN  /\ peek_cache_len' = peek_cache(response)
           /\ decoder' = r.dec
           /\ frame_recv' = r.info
           /\ last_res' = response
           /\ source' = next_source(response, r.info)
           /\ err_at' = IF IsOk(response) THEN err_at ELSE Some(source)
    /\ run' = NoRun
    /\ last_op' = "peek"
    /\ last_arg' = 0
    /\ prev' = Snapshot
    /\ frames' = <<>>
    /\ only_next' = FALSE
    /\ UNCHANGED <<decoder_buf, source_copy>>
    /\ UNCHANGED decoderVars

DecoderStream_peek ==
    /\ InBounds
    /\ LET r == dec("null")
           response == translate_response(r.info, r.samples, "empty")
       IN  /\ peek_cache_len' = peek_cache(response)
           /\ decoder' = r.dec
           /\ frame_recv' = r.info
           /\ last_res' = response
           /\ err_at' = IF IsOk(response) THEN err_at ELSE Some(source)
    /\ run' = NoRun
    /\ last_op' = "peek"
    /\ last_arg' = 0
    /\ prev' = Snapshot
    /\ frames' = <<>>
    /\ only_next' = FALSE
    /\ UNCHANGED <<decoder_buf, source, source_copy>>
    /\ UNCHANGED decoderVars

DecoderStream_set_position ==
    /\ \E n \in 0..(Len(source_copy) + MaxSeekOver) :
          /\ source' = clamp_position(n)
          /\ last_arg' = n
          /\ run' = [start |-> clamp_position(n), oks |-> 0, pure |-> TRUE]
    /\ last_op' = "set_position"
    /\ last_res' = NoResult
    /\ prev' = Snapshot
    /\ frames' = <<>>
    /\ only_next' = FALSE
    /\ err_at' = None
    /\ UNCHANGED <<decoder, decoder_buf, frame_recv, peek_cache_len, source_copy>>
    /\ UNCHANGED decoderVars

\* take() empties the cache. With no cache the internal peek() sets it again
\* when it finds a frame, and nothing clears it before skip() returns.
DecoderStream_skip ==
    /\ InBounds
    /\ LET r == dec("null")
           response == translate_response(r.info, r.samples, "empty")
       IN  IF peek_cache_len # None
           THEN /\ peek_cache_len' = None
                /\ source' = offset_trusted(source, peek_cache_len[1])
                /\ last_res' = OkUnit
                /\ UNCHANGED <<decoder, frame_recv>>
           ELSE /\ peek_cache_len' = peek_cache(response)
                /\ decoder' = r.dec
                /\ frame_recv' = r.info
                /\ IF IsOk(response)
                   THEN /\ source' = offset_trusted(source, response.bytes_consumed)
                        /\ last_res' = OkUnit
                   ELSE /\ source' = source
                        /\ last_res' = InsufficientData
    /\ run' = run_after(last_res')
    /\ last_op' = "skip"
    /\ last_arg' = 0
    /\ prev' = Snapshot
    /\ frames' = <<>>
    /\ only_next' = FALSE
    /\ UNCHANGED <<decoder_buf, source_copy, err_at>>
    /\ UNCHANGED decoderVars

Next ==
    \/ DecoderStream_next
    \/ DecoderStream_peek
    \/ DecoderStream_skip
    \/ DecoderStream_set_position

Spec == Init /\ [][Next]_vars

\* ------------------------------------------------------------ Decoder
\* Decoder::dec on an input of len bytes, with the response e of the engine:
\* the samples view is a slice of the buffer when one was given, else empty
Decoder_dec(e, buf) ==
    translate_response(e.info, e.samples, IF buf # "null" THEN "slice" ELSE "empty")

Decoder_peek ==
    /\ \E len \in 0..MaxInputLen :
          \E e \in EngineResponses(data_len_safe(len)) :
             /\ d_len' = len
             /\ d_samples' = e.samples
             /\ d_recv' = e.info
             /\ d_res' = Decoder_dec(e, "null")
    /\ d_op' = "peek"
    /\ UNCHANGED streamVars

Decoder_next ==
    /\ \E len \in 0..MaxInputLen :
          \E e \in EngineResponses(data_len_safe(len)) :
             /\ d_len' = len
             /\ d_samples' = e.samples
             /\ d_recv' = e.info
             /\ d_res' = Decoder_dec(e, "buf")
    /\ d_op' = "next"
    /\ UNCHANGED streamVars

InitDecoder ==
    /\ Init
    /\ source_copy = <<>>

NextDecoder ==
    \/ Decoder_peek
    \/ Decoder_next

SpecDecoder == InitDecoder /\ [][NextDecoder]_vars

\* A DecoderStream and a primitive Decoder side by side. The two objects share
\* no state, so each is explored with the other left as it was constructed
\* (the navigator over the empty buffer while the Decoder is used).
NextBoth ==
    \/ (d_op = "new" /\ Next)
    \/ (last_op = "new" /\ source_copy = <<>> /\ NextDecoder)

SpecBoth == Init /\ [][NextBoth]_vars

\* ------------------------------------------------------------- claims
\* what peek() returns with the view starting at src
PeekWould(src) ==
    LET r == dec_at(src, "null")
    IN  translate_response(r.info, r.samples, "empty")

\* an unbroken run of next() from position 0 has just met its first InsufficientData
RunEnded == only_next /\ last_op = "next" /\ last_res.kind = "Err"

\* C1: set_position(n) always leaves the peek cache None, so a skip() issued
\* directly after it never advances by a length peeked at the old position.
C1_SetPositionClearsCache ==
    last_op = "set_position" => peek_cache_len = None

\* C2 as stated: the source ranges of the frames that next() returned from
\* position 0 up to the first InsufficientData are contiguous and cover
\* exactly [0, position).
C2_SourceRangesPartition ==
    RunEnded =>
        /\ \A i \in 1..Len(frames) :
              frames[i].lo = (IF i = 1 THEN 0 ELSE frames[i - 1].hi)
        /\ position = (IF frames = <<>> THEN 0 ELSE frames[Len(frames)].hi)

\* C2 amended: the consumed ranges [position before the call, that position +
\* bytes_consumed) of those frames are contiguous and cover exactly
\* [0, position); each source range lies inside its consumed range and ends
\* where it ends, leaving out the lead-in bytes skipped before the frame.
C2_ConsumedRangesPartition ==
    RunEnded =>
        /\ \A i \in 1..Len(frames) :
              /\ frames[i].start =
                    (IF i = 1 THEN 0
                     ELSE frames[i - 1].start + frames[i - 1].bytes_consumed)
              /\ frames[i].start <= frames[i].lo
              /\ frames[i].lo <= frames[i].hi
              /\ frames[i].hi = frames[i].start + frames[i].bytes_consumed
        /\ position = (IF frames = <<>> THEN 0
                       ELSE frames[Len(frames)].start + frames[Len(frames)].bytes_consumed)

\* a run of two frames, one of them found behind skipped lead-in bytes
C2_Witness ==
    /\ RunEnded
    /\ Len(frames) = 2
    /\ \E i \in 1..Len(frames) : frames[i].start < frames[i].lo

\* C3: from a state where peek() would return Ok with bytes_consumed = k,
\* skip() advances position() by exactly k, cache or no cache.
C3_SkipAdvancesByPeekedLength ==
    (last_op = "skip" /\ IsOk(PeekWould(prev.source))) =>
        position = prev.source + PeekWould(prev.source).bytes_consumed

\* C4: two peek() calls in a row return the same outcome, metadata included,
\* and leave position() where it was.
C4_PeekIdempotent ==
    (last_op = "peek" /\ prev.last_op = "peek") =>
        (last_res = prev.last_res /\ position = prev.source)

\* a second peek() in a row over an audio frame
C4_Witness ==
    /\ last_op = "peek"
    /\ prev.last_op = "peek"
    /\ last_res.kind = "Audio"
    /\ position > 0

\* C5: once peek() or next() returned InsufficientData at a position, every
\* later peek() or next() at that position, with no set_position between,
\* returns InsufficientData too.
C5_ErrorStable ==
    (last_op \in {"peek", "next"} /\ prev.err_at = Some(prev.source)) =>
        last_res.kind = "Err"

\* next() after a failed peek() at a frame cut short by the end of the buffer
C5_Witness ==
    /\ last_op = "next"
    /\ prev.last_op = "peek"
    /\ prev.err_at = Some(prev.source)
    /\ prev.source < Len(source_copy)
    /\ last_res.kind = "Err"

\* C6: a next(), peek() or skip() that returns InsufficientData consumes
\* nothing: position() is what it was before the call.
C6_ErrConsumesNothing ==
    (last_op \in {"next", "peek", "skip"} /\ last_res.kind = "Err") =>
        position = prev.source

\* next() fails with bytes still ahead of the cursor
C6_Witness ==
    /\ last_op = "next"
    /\ last_res.kind = "Err"
    /\ position < Len(source_copy)

\* C7: skip() returns Ok exactly when a peek() at the position it was called
\* at would return Ok.
C7_SkipSucceedsAsPeek ==
    last_op = "skip" => (IsOk(last_res) <=> IsOk(PeekWould(prev.source)))

\* C8: set_position(n) with n beyond the buffer leaves the cursor at the
\* buffer's length and the rest of the navigator as set_position(length)
\* leaves it, and the peek() or next() that follows returns InsufficientData.
C8_ClampedRepositioning ==
    /\ (last_op = "set_position" /\ last_arg > Len(source_copy)) =>
          (position = Len(source_copy) /\ peek_cache_len = prev.peek_cache_len)
    /\ (/\ last_op \in {"peek", "next"}
        /\ prev.last_op = "set_position"
        /\ prev.last_arg > Len(source_copy)) =>
          (last_res.kind = "Err" /\ position = Len(source_copy))

\* peek() right after a set_position beyond the end of a non-empty buffer
C8_Witness ==
    /\ last_op = "peek"
    /\ prev.last_op = "set_position"
    /\ prev.last_arg > Len(source_copy)
    /\ Len(source_copy) > 0
    /\ last_res.kind = "Err"

\* C9 as stated: with frame_bytes and frame_offset each within [0, input
\* length], the source of every Ok frame is an in-bounds range of the input.
C9_SourceInBoundsWhenEachInRange ==
    IsOk(d_res) =>
        (0 <= d_res.src_lo /\ d_res.src_lo <= d_res.src_hi /\ d_res.src_hi <= d_len)

\* C9 amended: the source of every Ok frame is an in-bounds range of the
\* input for every engine that reports frame_offset <= frame_bytes <= input
\* length.
C9_SourceInBoundsWhenOrdered ==
    (IsOk(d_res) /\ d_recv.frame_offset <= d_recv.frame_bytes) =>
        (0 <= d_res.src_lo /\ d_res.src_lo <= d_res.src_hi /\ d_res.src_hi <= d_len)

\* an Unknown frame whose source starts behind the start of the input
C9_Witness ==
    /\ d_res.kind = "Unknown"
    /\ 0 < d_recv.frame_offset
    /\ d_recv.frame_offset < d_recv.frame_bytes

C11_NextAdvancesByBytesConsumed ==
    (last_op = "next" /\ IsOk(last_res)) =>
        position = prev.source + last_res.bytes_consumed

\* a second successful next(), which starts behind the start of the buffer
C11_Witness ==
    /\ last_op = "next"
    /\ IsOk(last_res)
    /\ prev.source > 0
    /\ position = prev.source + last_res.bytes_consumed

C13_PcmBufferInitialised ==
    /\ decoder_buf = MAX_SAMPLES_PER_FRAME
    /\ (last_op = "next" /\ last_res.kind = "Audio") =>
          last_res.samples_len <= decoder_buf

\* C14: the translator's three-way precedence, for every combination of its
\* inputs: a non-zero sample count gives Ok(Audio) whatever frame_bytes is;
\* else a non-zero frame_bytes gives Ok(Unknown) with bytes_consumed =
\* frame_bytes; else, both zero, Err(InsufficientData).
C14_ThreeWayPrecedence ==
    d_op # "new" =>
        /\ d_samples # 0 => d_res.kind = "Audio"
        /\ (d_samples = 0 /\ d_recv.frame_bytes # 0) =>
              (d_res.kind = "Unknown" /\ d_res.bytes_consumed = d_recv.frame_bytes)
        /\ (d_samples = 0 /\ d_recv.frame_bytes = 0) => d_res.kind = "Err"

\* samples reported with frame_bytes = 0: the sample count decides, Audio
C14_Witness ==
    /\ d_op # "new"
    /\ d_samples # 0
    /\ d_recv.frame_bytes = 0
    /\ d_res.kind = "Audio"

\* C15: in every reachable state a peek cache of Some(len) holds the
\* bytes_consumed that a peek() at the current cursor position would report.
C15_CacheMatchesPeek ==
    peek_cache_len # None =>
        /\ IsOk(PeekWould(source))
        /\ peek_cache_len[1] = PeekWould(source).bytes_consumed

\* C16 as stated: the samples view of a decoded Audio frame is never longer
\* than the PCM buffer, whatever sample count and channel count the engine
\* reports, a negative C int sample count included.
C16_ViewWithinCapacityAlways ==
    (d_op = "next" /\ d_res.kind = "Audio") =>
        d_res.samples_len <= MAX_SAMPLES_PER_FRAME

\* C16 amended: the samples view of a decoded Audio frame is never longer than
\* the PCM buffer when the engine reports a sample count within
\* 0..MAX_SAMPLES_PER_FRAME / 2 and 1 or 2 channels.
C16_ViewWithinCapacityForFrameCounts ==
    (/\ d_op = "next"
     /\ d_res.kind = "Audio"
     /\ 0 <= d_samples
     /\ d_samples <= MAX_SAMPLES_PER_FRAME \div 2
     /\ d_recv.channels \in 1..2) =>
        d_res.samples_len <= MAX_SAMPLES_PER_FRAME

\* a full two-channel frame: the view fills the buffer exactly
C16_Witness ==
    /\ d_op = "next"
    /\ d_res.kind = "Audio"
    /\ d_samples = MAX_SAMPLES_PER_FRAME \div 2
    /\ d_recv.channels = 2
    /\ d_res.samples_len = MAX_SAMPLES_PER_FRAME

\* C17: with no set_position, position() never decreases under next(), peek()
\* and skip(); peek() leaves it unchanged, and every successful next() or
\* skip() strictly increases it.
C17_CursorMonotonic ==
    /\ last_op \in {"next", "peek", "skip"} => position >= prev.source
    /\ last_op = "peek" => position = prev.source
    /\ (last_op \in {"next", "skip"} /\ IsOk(last_res)) => position > prev.source

\* a skip() that used the length a peek() had cached
C17_Witness ==
    /\ last_op = "skip"
    /\ prev.last_op = "peek"
    /\ prev.peek_cache_len # None
    /\ IsOk(last_res)
    /\ position > prev.source

\* C18: in every reachable state the cursor is inside the source buffer,
\* 0 <= position() <= buffer length; skip() never moves it past the end.
C18_CursorInsideBuffer ==
    0 <= position /\ position <= Len(source_copy)

\* C19: a caller that keeps calling next() or skip(), with no set_position,
\* gets at most as many Ok results as there are bytes behind the position it
\* started at, and so meets InsufficientData after finitely many calls.
C19_OkResultsBoundedByBytes ==
    run.pure => run.oks <= Len(source_copy) - run.start

====
